---- MODULE Spec2Model ----
(***************************************************************************)
(* Model of paper.py: create_engineering_sheet, the layout computation and *)
(* the sequence of canvas calls it issues for one page.                    *)
(*                                                                         *)
(* Numbers.  The function computes with Python floats (IEEE 754 binary64). *)
(* A float is modelled as the dyadic number it denotes, <<s, m, e>> =      *)
(* s * m * 2^e with m an odd natural number of at most 53 bits, and every  *)
(* arithmetic operation of the code as the exact operation followed by     *)
(* rounding to nearest, ties to even.  Mantissas exceed the range of the   *)
(* checker's integers and are kept as sequences of 15-bit limbs.           *)
(* A Python int (the space and line counts) has any size and is kept as    *)
(* the integer dyadic number it is.  Arguments are floats drawn from small  *)
(* sets.                                                                   *)
(***************************************************************************)
EXTENDS Integers, Sequences, FiniteSets, TLC

(* ---- bounds of the explored argument space ---- *)
MaxWidth == 7
MaxHeight == 8
MaxMargin == 3
MaxGrid == 2
MaxInterval == 3

PageWidths == {MaxWidth - 3, MaxWidth}
PageHeights == {MaxHeight - 3, MaxHeight}
\* margins next to the grid's origin, and margins on the far sides
NearMargins == {0, 1, MaxMargin}
FarMargins == {0, MaxMargin}
GridSizes == 1..MaxGrid
Intervals == 1..MaxInterval

(* ---- natural numbers of any size: little-endian limbs below Base ---- *)
Base == 2^15
LimbBits == 15

RECURSIVE BTrim(_)
BTrim(a) ==
    IF a = <<>> THEN a
    ELSE IF a[Len(a)] = 0 THEN BTrim(SubSeq(a, 1, Len(a) - 1)) ELSE a

RECURSIVE BFromInt(_)
BFromInt(n) == IF n = 0 THEN <<>> ELSE <<n % Base>> \o BFromInt(n \div Base)

RECURSIVE BToInt(_)
BToInt(a) == IF a = <<>> THEN 0 ELSE a[1] + Base * BToInt(Tail(a))

Limb(a) == IF a = <<>> THEN 0 ELSE a[1]
Rest(a) == IF a = <<>> THEN a ELSE Tail(a)

RECURSIVE BAddC(_, _, _)
BAddC(a, b, c) ==
    IF a = <<>> /\ b = <<>>
    THEN IF c = 0 THEN <<>> ELSE <<c>>
    ELSE LET s == Limb(a) + Limb(b) + c
         IN  <<s % Base>> \o BAddC(Rest(a), Rest(b), s \div Base)
BAdd(a, b) == BAddC(a, b, 0)

\* a - b for a >= b
RECURSIVE BSubC(_, _, _)
BSubC(a, b, c) ==
    IF a = <<>> THEN <<>>
    ELSE LET d == a[1] - Limb(b) - c
         IN  <<d % Base>> \o BSubC(Tail(a), Rest(b), IF d < 0 THEN 1 ELSE 0)
BSub(a, b) == BTrim(BSubC(a, b, 0))

RECURSIVE BCmpFrom(_, _, _)
BCmpFrom(a, b, i) ==
    IF i = 0 THEN 0
    ELSE IF a[i] < b[i] THEN -1
    ELSE IF a[i] > b[i] THEN 1
    ELSE BCmpFrom(a, b, i - 1)
\* -1, 0 or 1 as a < b, a = b or a > b
BCmp(a, b) ==
    IF Len(a) < Len(b) THEN -1
    ELSE IF Len(a) > Len(b) THEN 1
    ELSE BCmpFrom(a, b, Len(a))

RECURSIVE BMulSmallC(_, _, _)
BMulSmallC(a, k, c) ==
    IF a = <<>>
    THEN IF c = 0 THEN <<>> ELSE <<c>>
    ELSE LET s == a[1] * k + c
         IN  <<s % Base>> \o BMulSmallC(Tail(a), k, s \div Base)
BMulSmall(a, k) == IF k = 0 THEN <<>> ELSE BMulSmallC(a, k, 0)

RECURSIVE BMul(_, _)
BMul(a, b) ==
    IF a = <<>> \/ b = <<>> THEN <<>>
    ELSE BTrim(BAdd(BMulSmall(a, b[1]), <<0>> \o BMul(a, Tail(b))))

Zeros(n) == [i \in 1..n |-> 0]
\* a * 2^k
BShl(a, k) ==
    IF a = <<>> THEN a
    ELSE Zeros(k \div LimbBits) \o BMulSmall(a, 2^(k % LimbBits))
\* floor(a / 2^k)
BShr(a, k) ==
    LET w == k \div LimbBits
        r == k % LimbBits
        n == Len(a) - w
    IN  IF n <= 0 THEN <<>>
        ELSE BTrim([i \in 1..n |->
                 (a[w + i] \div 2^r)
                 + (IF i < n THEN (a[w + i + 1] % 2^r) * 2^(LimbBits - r)
                    ELSE 0)])
\* a mod 2^k
BLow(a, k) ==
    LET w == k \div LimbBits
        r == k % LimbBits
    IN  IF Len(a) <= w THEN a
        ELSE BTrim(SubSeq(a, 1, w) \o <<a[w + 1] % 2^r>>)

RECURSIVE BitLenSmall(_)
BitLenSmall(n) == IF n = 0 THEN 0 ELSE 1 + BitLenSmall(n \div 2)
BBitLen(a) ==
    IF a = <<>> THEN 0
    ELSE LimbBits * (Len(a) - 1) + BitLenSmall(a[Len(a)])

RECURSIVE TrailingSmall(_)
TrailingSmall(n) == IF n % 2 = 1 THEN 0 ELSE 1 + TrailingSmall(n \div 2)
\* the number of trailing zero bits of a # 0
RECURSIVE BTrailing(_)
BTrailing(a) ==
    IF a[1] = 0 THEN LimbBits + BTrailing(Tail(a)) ELSE TrailingSmall(a[1])

BOdd(a) == a # <<>> /\ a[1] % 2 = 1

\* long division: one quotient bit, for the divisor shifted by i bits;
\* st = <<quotient so far, remainder so far>>
BDivStep(st, b, i) ==
    LET t == BShl(b, i)
        take == BCmp(t, st[2]) <= 0
    IN  << BAddC(BMulSmall(st[1], 2), <<>>, IF take THEN 1 ELSE 0),
           IF take THEN BSub(st[2], t) ELSE st[2] >>
\* the quotient bits hi down to lo, by halves; once the remainder is 0 the
\* remaining bits are 0
RECURSIVE BDivRange(_, _, _, _)
BDivRange(st, b, hi, lo) ==
    IF hi = lo THEN BDivStep(st, b, hi)
    ELSE LET mid == (hi + lo + 1) \div 2
             upper == BDivRange(st, b, hi, mid)
         IN  IF upper[2] = <<>>
             THEN <<BShl(upper[1], mid - lo), <<>>>>
             ELSE BDivRange(upper, b, mid - 1, lo)
\* division by a one-limb divisor d, from the high limb i down, r the
\* remainder carried
RECURSIVE BDivSmallFrom(_, _, _, _)
BDivSmallFrom(a, d, i, r) ==
    IF i = 0 THEN <<<<>>, r>>
    ELSE LET cur == r * Base + a[i]
             low == BDivSmallFrom(a, d, i - 1, cur % d)
         IN  <<Append(low[1], cur \div d), low[2]>>
\* <<floor(a / b), a mod b>> for b # 0
BDivMod(a, b) ==
    LET i == BBitLen(a) - BBitLen(b)
        small == BDivSmallFrom(a, b[1], Len(a), 0)
    IN  IF i < 0 THEN <<<<>>, a>>
        ELSE IF Len(b) = 1 THEN <<BTrim(small[1]), BFromInt(small[2])>>
        ELSE BDivRange(<<<<>>, a>>, b, i, 0)

(* ---- exact dyadic numbers <<s, m, e>> = s * m * 2^e, s in {-1, 0, 1},  ---- *)
(* ---- m odd (zero is <<0, <<>>, 0>>), so that equal numbers are equal   ---- *)
DZero == <<0, <<>>, 0>>
DNorm(s, m, e) ==
    IF s = 0 \/ m = <<>> THEN DZero
    ELSE LET z == BTrailing(m) IN <<s, BShr(m, z), e + z>>
Abs(n) == IF n < 0 THEN -n ELSE n
Sign(n) == IF n < 0 THEN -1 ELSE IF n > 0 THEN 1 ELSE 0
\* the float of a Python int
F(n) == DNorm(Sign(n), BFromInt(Abs(n)), 0)
DNeg(a) == <<-a[1], a[2], a[3]>>
DAdd(a, b) ==
    IF a[1] = 0 THEN b
    ELSE IF b[1] = 0 THEN a
    ELSE LET e == IF a[3] < b[3] THEN a[3] ELSE b[3]
             x == BShl(a[2], a[3] - e)
             y == BShl(b[2], b[3] - e)
             c == BCmp(x, y)
         IN  IF a[1] = b[1] THEN DNorm(a[1], BAdd(x, y), e)
             ELSE IF c = 0 THEN DZero
             ELSE IF c > 0 THEN DNorm(a[1], BSub(x, y), e)
             ELSE DNorm(b[1], BSub(y, x), e)
DSub(a, b) == DAdd(a, DNeg(b))
DMul(a, b) == DNorm(a[1] * b[1], BMul(a[2], b[2]), a[3] + b[3])
DAbs(a) == <<Abs(a[1]), a[2], a[3]>>
DLess(a, b) == DSub(a, b)[1] < 0
DLeq(a, b) == DSub(a, b)[1] <= 0
Pow2(k) == <<1, <<1>>, k>>

(* ---- Python float arithmetic: IEEE 754 binary64, round to nearest even ---- *)
MantissaBits == 53
round(d) ==
    LET len == BBitLen(d[2])
        sh == len - MantissaBits
        q == BShr(d[2], sh)
        c == BCmp(BLow(d[2], sh), BShl(<<1>>, sh - 1))
        up == c > 0 \/ (c = 0 /\ BOdd(q))
    IN  IF len <= MantissaBits THEN d
        ELSE DNorm(d[1], IF up THEN BAdd(q, <<1>>) ELSE q, d[3] + sh)
add(a, b) == round(DAdd(a, b))
sub(a, b) == round(DSub(a, b))
mul(a, b) == round(DMul(a, b))
\* a / b, for b # 0
truediv(a, b) ==
    IF a[1] = 0 THEN DZero
    ELSE LET k0 == MantissaBits + 3 + BBitLen(b[2]) - BBitLen(a[2])
             k == IF k0 < 0 THEN 0 ELSE k0
             qr == BDivMod(BShl(a[2], k), b[2])
             e == a[3] - b[3] - k
         IN  IF qr[2] = <<>>
             THEN round(DNorm(a[1] * b[1], qr[1], e))
             ELSE round(DNorm(a[1] * b[1],
                              BAddC(BMulSmall(qr[1], 2), <<>>, 1), e - 1))
\* fmod(a, b), for b # 0: the remainder of a by b with the quotient truncated
\* toward zero; it is exact and has the sign of a
fmod(a, b) ==
    IF a[1] = 0 THEN DZero
    ELSE LET e == IF a[3] < b[3] THEN a[3] ELSE b[3]
             qr == BDivMod(BShl(a[2], a[3] - e), BShl(b[2], b[3] - e))
         IN  DNorm(a[1], qr[2], e)
\* floor(x): the largest integer not above x
floor(x) ==
    IF x[3] >= 0 THEN x
    ELSE LET q == BShr(x[2], -x[3])
         IN  IF x[1] > 0 THEN DNorm(1, q, 0)
             ELSE DNorm(-1, BAdd(q, <<1>>), 0)
\* the quotient snapped to the nearest integer: its floor, or one more when
\* the quotient is above the floor by more than 0.5
snap(div, floordiv_) ==
    IF div[1] = 0 THEN DZero
    ELSE IF DLess(Pow2(-1), sub(div, floordiv_))
    THEN add(floordiv_, F(1))
    ELSE floordiv_
\* the quotient lowered by one when the remainder is not zero and has the
\* sign opposite to b's
lowered(quot, b, mod) ==
    IF mod[1] # 0 /\ (b[1] < 0) # (mod[1] < 0) THEN sub(quot, F(1)) ELSE quot
float_div_mod(a, b, mod) == lowered(truediv(sub(a, mod), b), b, mod)
float_floor(div) == snap(div, floor(div))
\* a // b on floats, for b # 0, as CPython computes it: the remainder by
\* fmod, the quotient as the rounded (a - mod) / b, lowered by one when the
\* remainder has the sign opposite to b's, then snapped to the nearest
\* integer
floordiv(a, b) == float_floor(float_div_mod(a, b, fmod(a, b)))
\* mutant of min: the larger argument
max(a, b) == IF DLess(a, b) THEN b ELSE a
\* min(a, b): Python returns the first argument unless the second is smaller
min(a, b) == IF DLess(b, a) THEN b ELSE a
\* int(x): truncation toward zero; a Python int has any size and is kept as
\* the (integer) dyadic number it is
int(x) ==
    IF x[3] >= 0 THEN x
    ELSE DNorm(x[1], BShr(x[2], -x[3]), 0)
\* the float of a Python int n, as in n * x and x / n: the nearest float
float(n) == round(n)

\* mutant of mult_floor: "/" in place of "//"
mult_floor_truediv(n, multiple) == int(mul(truediv(n, multiple), multiple))

(* ---- mult_floor ---- *)
mult_floor(n, multiple) == int(mul(floordiv(n, multiple), multiple))

VARIABLES
    args,                   \* the call's arguments, never reassigned
    pc,                     \* position in create_engineering_sheet
    margin_left,            \* local, shifted by horizontal centering
    margin_bottom,          \* local, shifted by vertical centering
    grid_size,              \* local, replaced when stretch_grid
    num_vertical_spaces,
    num_horizontal_spaces,
    top_stop,
    right_stop,
    horizontal_delta,
    vertical_delta,
    axis,                   \* loop variable of the for statement
    line_pos,
    count,
    stroke_color,           \* canvas state set by setStrokeColor
    line_width,             \* canvas state set by setLineWidth
    ops,                    \* the canvas calls issued so far, in order
    exception               \* "none", or the exception that ended the call

vars == <<args, pc, margin_left, margin_bottom, grid_size,
          num_vertical_spaces, num_horizontal_spaces, top_stop, right_stop,
          horizontal_delta, vertical_delta, axis, line_pos, count,
          stroke_color, line_width, ops, exception>>

Floats(S) == {F(n) : n \in S}
Arguments ==
    [width : Floats(PageWidths), height : Floats(PageHeights),
     margin_top : Floats(FarMargins), margin_left : Floats(NearMargins),
     margin_bottom : Floats(NearMargins), margin_right : Floats(FarMargins),
     grid_size : Floats(GridSizes), major_line_interval : Intervals,
     stretch_grid : BOOLEAN, horizontal_center : BOOLEAN,
     vertical_center : BOOLEAN]
\* page widths of 2^53 + 2 and 2^60 points: the quotient by grid_size is
\* beyond the integers a float counts exactly
HugeWidths == {DAdd(Pow2(53), F(2)), Pow2(60)}
\* a grid of that many lines is beyond exploration: these widths come with
\* stretch_grid and a usable height that holds no space (2 points, below
\* grid_size times an interval of 3 or more), so that the call ends at the
\* layout
HugeArguments ==
    [width : HugeWidths, height : {F(MaxHeight - 3)},
     margin_top : {F(MaxHeight - 5)}, margin_left : Floats(NearMargins),
     margin_bottom : {F(0)}, margin_right : Floats(FarMargins),
     grid_size : Floats(GridSizes),
     major_line_interval : {i \in Intervals : i >= 3},
     stretch_grid : {TRUE}, horizontal_center : BOOLEAN,
     vertical_center : BOOLEAN]

width == args.width
height == args.height
margin_top == args.margin_top
margin_right == args.margin_right
major_line_interval == args.major_line_interval

\* width - margin_left - margin_right and height - margin_bottom - margin_top,
\* as evaluated on the arguments (before centering moves the margins)
usable_width == sub(sub(width, args.margin_left), margin_right)
usable_height == sub(sub(height, args.margin_bottom), margin_top)

num_vertical_lines == DAdd(num_vertical_spaces, F(1))
num_horizontal_lines == DAdd(num_horizontal_spaces, F(1))

(* The entry of the function: the canvas is created (nothing is written),  *)
(* the margins are unpacked, nothing else is bound yet (0 stands for a     *)
(* local that is not yet assigned).                                        *)
Init ==
    /\ args \in Arguments \cup HugeArguments
    /\ pc = "background"
    /\ margin_left = args.margin_left
    /\ margin_bottom = args.margin_bottom
    /\ grid_size = args.grid_size
    /\ num_vertical_spaces = F(0)
    /\ num_horizontal_spaces = F(0)
    /\ top_stop = F(0)
    /\ right_stop = F(0)
    /\ horizontal_delta = F(0)
    /\ vertical_delta = F(0)
    /\ axis = "none"
    /\ line_pos = F(0)
    /\ count = 0
    /\ stroke_color = "default"
    /\ line_width = "default"
    /\ ops = <<>>
    /\ exception = "none"

(* c.setFillColor(background_color); c.rect(0, 0, width, height, fill=1) *)
Background ==
    /\ pc = "background"
    /\ ops' = Append(ops, [op |-> "rect", x |-> F(0), y |-> F(0),
                           w |-> width, h |-> height])
    /\ pc' = "layout"
    /\ UNCHANGED <<args, margin_left, margin_bottom, grid_size,
                   num_vertical_spaces, num_horizontal_spaces, top_stop,
                   right_stop, horizontal_delta, vertical_delta, axis,
                   line_pos, count, stroke_color, line_width, exception>>

(* ---- the layout computation, lines 43-68 ---- *)
spaces(usable, size, interval) ==
    mult_floor(floordiv(usable, size), F(interval))

\* mutant of stretched_grid_size: a zero horizontal count is skipped
stretched_grid_size_guarded(nv, nh) ==
    IF nv = F(0)
    THEN [raised |-> TRUE, value |-> F(0)]
    ELSE [raised |-> FALSE,
          value |-> IF nh = F(0)
                    THEN truediv(usable_width, float(nv))
                    ELSE min(truediv(usable_width, float(nv)),
                              truediv(usable_height, float(nh)))]

\* lines 50-52: each division raises ZeroDivisionError on a zero count;
\* otherwise the smaller of the two per-axis sizes
stretched_grid_size(nv, nh) ==
    IF nv = F(0) \/ nh = F(0)
    THEN [raised |-> TRUE, value |-> F(0)]
    ELSE [raised |-> FALSE,
          value |-> min(truediv(usable_width, float(nv)),
                         truediv(usable_height, float(nh)))]

\* mutant of stop: the line count in place of the space count
stop_by_lines(margin, num_spaces, size) ==
    add(margin, mul(float(DAdd(num_spaces, F(1))), size))
stop(margin, num_spaces, size) == add(margin, mul(float(num_spaces), size))

\* mutant of center_delta: the whole leftover
center_delta_whole(limit, far_stop) == sub(limit, far_stop)
center_delta(limit, far_stop) == truediv(sub(limit, far_stop), F(2))

\* lines 60-68: each centered axis is shifted by its delta
CenterGrid(g, ts, rs, hd, vd) ==
    /\ grid_size' = g
    /\ IF args.horizontal_center
       THEN /\ horizontal_delta' = hd
            /\ right_stop' = add(rs, hd)
            /\ margin_left' = add(margin_left, hd)
       ELSE /\ right_stop' = rs
            /\ UNCHANGED <<horizontal_delta, margin_left>>
    /\ IF args.vertical_center
       THEN /\ vertical_delta' = vd
            /\ top_stop' = add(ts, vd)
            /\ margin_bottom' = add(margin_bottom, vd)
       ELSE /\ top_stop' = ts
            /\ UNCHANGED <<vertical_delta, margin_bottom>>
    /\ pc' = "for"
    /\ UNCHANGED exception

\* lines 55-56 gave the stops ts and rs; lines 61 and 65 give the deltas
SetStops(g, ts, rs) ==
    CenterGrid(g, ts, rs, center_delta(sub(width, margin_right), rs),
               center_delta(sub(height, margin_top), ts))

\* lines 49-56: the call ends when the stretch raised; otherwise the stops
\* are computed with the grid_size in effect
StretchGrid(nv, nh, st) ==
    IF st.raised
    THEN /\ pc' = "raised"
         /\ exception' = "ZeroDivisionError"
         /\ UNCHANGED <<margin_left, margin_bottom, grid_size, top_stop,
                        right_stop, horizontal_delta, vertical_delta>>
    ELSE SetStops(st.value, stop(margin_bottom, nh, st.value),
                  stop(margin_left, nv, st.value))

\* lines 46-53, for the counts nv and nh of the two axes
SetSpaces(nv, nh) ==
    /\ num_vertical_spaces' = nv
    /\ num_horizontal_spaces' = nh
    /\ StretchGrid(nv, nh, IF args.stretch_grid
                           THEN stretched_grid_size(nv, nh)
                           ELSE [raised |-> FALSE, value |-> grid_size])

ComputeLayout ==
    /\ pc = "layout"
    /\ SetSpaces(spaces(usable_width, grid_size, major_line_interval),
                 spaces(usable_height, grid_size, major_line_interval))
    /\ UNCHANGED <<args, axis, line_pos, count, stroke_color, line_width, ops>>

(* ---- the grid, lines 71-94 ---- *)
num_lines == IF axis = "x" THEN num_vertical_lines ELSE num_horizontal_lines
line_end == IF axis = "x" THEN top_stop ELSE right_stop

\* the for statement: bind the next axis and reset line_pos and count, or
\* leave the loop after the 'y' axis
ForNext ==
    /\ pc = "for"
    /\ IF axis = "none"
       THEN /\ axis' = "x"
            /\ line_pos' = margin_left
            /\ count' = 0
            /\ pc' = "while"
       ELSE IF axis = "x"
       THEN /\ axis' = "y"
            /\ line_pos' = margin_bottom
            /\ count' = 0
            /\ pc' = "while"
       ELSE /\ pc' = "border"
            /\ UNCHANGED <<axis, line_pos, count>>
    /\ UNCHANGED <<args, margin_left, margin_bottom, grid_size,
                   num_vertical_spaces, num_horizontal_spaces, top_stop,
                   right_stop, horizontal_delta, vertical_delta,
                   stroke_color, line_width, ops, exception>>

\* mutant of line_style: the interval counted from 1
line_style_from_one(n, interval) ==
    IF (n + 1) % interval = 0 THEN "major" ELSE "minor"
\* line 77: the style of the line with index n
line_style(n, interval) == IF n % interval = 0 THEN "major" ELSE "minor"

\* one iteration of the while loop
WhileBody ==
    /\ pc = "while"
    /\ DLess(F(count), num_lines)
    /\ LET style == line_style(count, major_line_interval)
           l == IF axis = "x"
                THEN [op |-> "line", x1 |-> line_pos, y1 |-> margin_bottom,
                      x2 |-> line_pos, y2 |-> line_end,
                      color |-> style, width |-> style, kind |-> "x"]
                ELSE [op |-> "line", x1 |-> margin_left, y1 |-> line_pos,
                      x2 |-> line_end, y2 |-> line_pos,
                      color |-> style, width |-> style, kind |-> "y"]
       IN  /\ stroke_color' = style
           /\ line_width' = style
           /\ ops' = Append(ops, l)
    /\ line_pos' = add(line_pos, grid_size)
    /\ count' = count + 1
    /\ UNCHANGED <<args, pc, margin_left, margin_bottom, grid_size,
                   num_vertical_spaces, num_horizontal_spaces, top_stop,
                   right_stop, horizontal_delta, vertical_delta, axis,
                   exception>>

WhileExit ==
    /\ pc = "while"
    /\ ~DLess(F(count), num_lines)
    /\ pc' = "for"
    /\ UNCHANGED <<args, margin_left, margin_bottom, grid_size,
                   num_vertical_spaces, num_horizontal_spaces, top_stop,
                   right_stop, horizontal_delta, vertical_delta, axis,
                   line_pos, count, stroke_color, line_width, ops, exception>>

(* ---- the border, lines 97-102 ---- *)
border_lines ==
    << [op |-> "line", x1 |-> margin_left, y1 |-> F(0),
        x2 |-> margin_left, y2 |-> height,
        color |-> "border", width |-> "border", kind |-> "border_left"],
       [op |-> "line", x1 |-> F(0), y1 |-> top_stop,
        x2 |-> width, y2 |-> top_stop,
        color |-> "border", width |-> "border", kind |-> "border_top"],
       [op |-> "line", x1 |-> right_stop, y1 |-> F(0),
        x2 |-> right_stop, y2 |-> height,
        color |-> "border", width |-> "border", kind |-> "border_right"],
       [op |-> "line", x1 |-> margin_left, y1 |-> margin_bottom,
        x2 |-> right_stop, y2 |-> margin_bottom,
        color |-> "border", width |-> "border", kind |-> "border_bottom"] >>

DrawBorder ==
    /\ pc = "border"
    /\ stroke_color' = "border"
    /\ line_width' = "border"
    /\ ops' = ops \o border_lines
    /\ pc' = "dividers"
    /\ UNCHANGED <<args, margin_left, margin_bottom, grid_size,
                   num_vertical_spaces, num_horizontal_spaces, top_stop,
                   right_stop, horizontal_delta, vertical_delta, axis,
                   line_pos, count, exception>>

(* ---- the thirds dividers, lines 105-107 ---- *)
thirds_spacing == truediv(sub(right_stop, margin_left), F(3))

\* a line from top_stop to the top of the page at x
divider(x) ==
    [op |-> "line", x1 |-> x, y1 |-> top_stop, x2 |-> x, y2 |-> height,
     color |-> stroke_color, width |-> line_width, kind |-> "divider"]

DrawDividers ==
    /\ pc = "dividers"
    /\ ops' = ops \o
          << divider(add(margin_left, thirds_spacing)),
             divider(add(margin_left, mul(F(2), thirds_spacing))) >>
    /\ pc' = "save"
    /\ UNCHANGED <<args, margin_left, margin_bottom, grid_size,
                   num_vertical_spaces, num_horizontal_spaces, top_stop,
                   right_stop, horizontal_delta, vertical_delta, axis,
                   line_pos, count, stroke_color, line_width, exception>>

\* mutant of Save: the page is also saved right after the grid
Save_early ==
    /\ pc \in {"border", "save"}
    /\ ops' = ops \o << [op |-> "showPage"], [op |-> "save"] >>
    /\ pc' = "done"
    /\ UNCHANGED <<args, margin_left, margin_bottom, grid_size,
                   num_vertical_spaces, num_horizontal_spaces, top_stop,
                   right_stop, horizontal_delta, vertical_delta, axis,
                   line_pos, count, stroke_color, line_width, exception>>

(* ---- c.showPage(); c.save(), lines 110-111 ---- *)
Save ==
    /\ pc = "save"
    /\ ops' = ops \o << [op |-> "showPage"], [op |-> "save"] >>
    /\ pc' = "done"
    /\ UNCHANGED <<args, margin_left, margin_bottom, grid_size,
                   num_vertical_spaces, num_horizontal_spaces, top_stop,
                   right_stop, horizontal_delta, vertical_delta, axis,
                   line_pos, count, stroke_color, line_width, exception>>

Next ==
    \/ Background
    \/ ComputeLayout
    \/ ForNext
    \/ WhileBody
    \/ WhileExit
    \/ DrawBorder
    \/ DrawDividers
    \/ Save

Spec == Init /\ [][Next]_vars

(***************************************************************************)
(* Properties                                                              *)
(***************************************************************************)
Zero == F(0)
LayoutDone == pc \in {"for", "while", "border", "dividers", "save", "done"}
GridDone == pc \in {"border", "dividers", "save", "done"}
BorderDone == pc \in {"dividers", "save", "done"}
RoundingDone == LayoutDone \/ pc = "raised"
ValidInput == DLess(Zero, usable_width) /\ DLess(Zero, usable_height)

OpsOf(name) == {i \in 1..Len(ops) : ops[i].op = name}
LinesOf(kind) == {i \in OpsOf("line") : ops[i].kind = kind}
MajorLinesOf(kind) ==
    {i \in LinesOf(kind) : ops[i].color = "major" /\ ops[i].width = "major"}
First(S) == CHOOSE i \in S : \A j \in S : i <= j
Last(S) == CHOOSE i \in S : \A j \in S : j <= i
Max0(n) == IF n < 0 THEN 0 ELSE n
\* a count the grid loop has run through, as a number
Count(n) == n[1] * BToInt(BShl(n[2], n[3]))
input_margin_left == args.margin_left
input_margin_bottom == args.margin_bottom
\* width - margin_right and height - margin_top, as real numbers
right_limit == DSub(width, margin_right)
top_limit == DSub(height, margin_top)
\* a bound on the magnitude of every number the layout computes
Scale ==
    DAdd(DAdd(DAdd(args.width, args.height),
              DAdd(args.margin_top, args.margin_left)),
         DAdd(DAdd(args.margin_bottom, args.margin_right),
              DMul(args.grid_size, F(args.major_line_interval))))
\* k * 2^-50 * Scale: k rounding errors of float operations on numbers
\* below Scale, with a factor 8 to spare
Tolerance(k) == DMul(DMul(F(k), Scale), Pow2(-50))
Near(a, b, k) == DLeq(DAbs(DSub(a, b)), Tolerance(k))
AtLeast(a, b, k) == DLeq(DSub(b, Tolerance(k)), a)

\* C1: whenever the usable width or the usable height is not positive, the
\* call ends in an error and no page is saved, whatever the options are.
C1_NonPositiveUsableSpaceFails ==
    ~ValidInput => (pc # "done" /\ OpsOf("save") = {})

\* C2: for valid input, after the rounding step each space count is the
\* largest multiple of major_line_interval that is <= floor(usable / grid_size)
\* (grid_size being the argument), hence divisible by major_line_interval.
\* the q with q * grid_size <= usable < (q + 1) * grid_size, for a positive
\* usable extent and the grid_size of the arguments
RawSpaces(usable) ==
    LET e == IF usable[3] < args.grid_size[3]
             THEN usable[3] ELSE args.grid_size[3]
    IN  DNorm(1, BDivMod(BShl(usable[2], usable[3] - e),
                         BShl(args.grid_size[2], args.grid_size[3] - e))[1],
              0)
LargestMultipleBelow(n, raw) ==
    /\ fmod(n, F(major_line_interval)) = Zero
    /\ DLeq(n, raw)
    /\ DLess(raw, DAdd(n, F(major_line_interval)))
C2_SpacesAreLargestMultiple ==
    (RoundingDone /\ ValidInput) =>
        /\ LargestMultipleBelow(num_vertical_spaces, RawSpaces(usable_width))
        /\ LargestMultipleBelow(num_horizontal_spaces,
                                RawSpaces(usable_height))

\* C3: in a completed render all four border segments span the full
\* page on their perpendicular axis.
FullHeight(l) == l.y1 = Zero /\ l.y2 = height /\ l.x1 = l.x2
FullWidth(l) == l.x1 = Zero /\ l.x2 = width /\ l.y1 = l.y2
BorderAt(kind) == ops[First(LinesOf(kind))]
C3_AllBordersSpanPage ==
    BorderDone =>
        /\ FullHeight(BorderAt("border_left"))
        /\ FullHeight(BorderAt("border_right"))
        /\ FullWidth(BorderAt("border_top"))
        /\ FullWidth(BorderAt("border_bottom"))

\* C4 as stated: for valid input the number of major grid lines of each axis
\* is num_lines // major_line_interval + 1, for every interval >= 1.
C4_MajorCountByLines ==
    (GridDone /\ ValidInput) =>
        /\ Cardinality(MajorLinesOf("x")) =
               Count(num_vertical_lines) \div major_line_interval + 1
        /\ Cardinality(MajorLinesOf("y")) =
               Count(num_horizontal_lines) \div major_line_interval + 1
\* C4 amended: the number of major grid lines of each axis is
\* num_spaces // major_line_interval + 1; this is
\* num_lines // major_line_interval + 1 for every interval >= 2 of which
\* num_spaces is a multiple, and is num_lines (every line is major) for
\* interval 1.
MajorCountOK(kind, nspaces) ==
    LET n == Cardinality(MajorLinesOf(kind))
        nlines == nspaces + 1
    IN  /\ n = nspaces \div major_line_interval + 1
        /\ (major_line_interval >= 2 /\ nspaces % major_line_interval = 0) =>
               n = nlines \div major_line_interval + 1
        /\ major_line_interval = 1 =>
               (n = nlines /\ n = Cardinality(LinesOf(kind)))
C4_MajorCount ==
    (GridDone /\ ValidInput) =>
        /\ MajorCountOK("x", Count(num_vertical_spaces))
        /\ MajorCountOK("y", Count(num_horizontal_spaces))
C4_Witness ==
    /\ pc = "done" /\ ValidInput
    /\ major_line_interval >= 2
    /\ Count(num_vertical_spaces) >= 2 * major_line_interval
    /\ Cardinality(MajorLinesOf("x")) = 3
    /\ Cardinality(LinesOf("x")) > 3

\* C5: with stretch_grid, a space count of 0 on either axis makes the call
\* fail with an error before any line is drawn.
C5_StretchZeroCountFails ==
    (args.stretch_grid /\ RoundingDone
        /\ (num_vertical_spaces = Zero \/ num_horizontal_spaces = Zero)) =>
        /\ pc = "raised"
        /\ exception # "none"
        /\ OpsOf("line") = {}
        /\ OpsOf("save") = {}
C5_Witness ==
    /\ pc = "raised" /\ args.stretch_grid
    /\ DLess(Zero, num_vertical_spaces) /\ num_horizontal_spaces = Zero
    /\ ValidInput

\* C6: the page is saved at most once, only as the last call and after the
\* background fill, every grid line of both axes, the four border segments
\* and the two dividers; a completed call has saved exactly once and a failed
\* call never saves.
C6_SaveOnlyAfterFullDraw ==
    /\ Cardinality(OpsOf("save")) <= 1
    /\ pc = "done" => Cardinality(OpsOf("save")) = 1
    /\ pc = "raised" => (OpsOf("save") = {} /\ OpsOf("showPage") = {})
    /\ \A s \in OpsOf("save") :
          /\ s = Len(ops)
          /\ OpsOf("showPage") = {s - 1}
          /\ OpsOf("rect") = {1}
          /\ Cardinality(LinesOf("x")) = Max0(Count(num_vertical_lines))
          /\ Cardinality(LinesOf("y")) = Max0(Count(num_horizontal_lines))
          /\ \A k \in {"border_left", "border_right", "border_top",
                       "border_bottom"} : Cardinality(LinesOf(k)) = 1
          /\ Cardinality(LinesOf("divider")) = 2
          /\ \A i \in OpsOf("line") : 1 < i /\ i < s - 1
C6_Witness ==
    /\ pc = "done" /\ ValidInput
    /\ Cardinality(LinesOf("x")) > 1 /\ Cardinality(LinesOf("y")) > 1
    /\ ops[Len(ops)].op = "save"

\* C7 as stated: with horizontal_center the grid's left edge is exactly as
\* far from the input margin_left as right_stop is from width - margin_right,
\* and the shift is 0 when the grid spans the usable width; likewise for
\* vertical_center.
left_gap == DSub(margin_left, input_margin_left)
right_gap == DSub(right_limit, right_stop)
bottom_gap == DSub(margin_bottom, input_margin_bottom)
top_gap == DSub(top_limit, top_stop)
grid_width == DMul(num_vertical_spaces, grid_size)
grid_height == DMul(num_horizontal_spaces, grid_size)
LastLine(kind) == ops[Last(LinesOf(kind))]
C8_StretchedGridFitsExactly ==
    (args.stretch_grid /\ LayoutDone) =>
        /\ DSub(right_stop, margin_left) = grid_width
        /\ DSub(top_stop, margin_bottom) = grid_height
        /\ (GridDone /\ LinesOf("x") # {}) =>
               LastLine("x").x1 = right_stop
        /\ (GridDone /\ LinesOf("y") # {}) =>
               LastLine("y").y1 = top_stop
\* C8 amended: the same equalities up to float rounding: the extent of the
\* grid within 4 * 2^-50 * Scale, and the last line of an axis with n lines
\* within (n + 4) * 2^-50 * Scale of the stop.
C8_StretchedGridFitsStops ==
    (args.stretch_grid /\ LayoutDone) =>
        /\ Near(DSub(right_stop, margin_left), grid_width, 4)
        /\ Near(DSub(top_stop, margin_bottom), grid_height, 4)
        /\ (GridDone /\ LinesOf("x") # {}) =>
               Near(LastLine("x").x1, right_stop,
                    Count(num_vertical_lines) + 4)
        /\ (GridDone /\ LinesOf("y") # {}) =>
               Near(LastLine("y").y1, top_stop,
                    Count(num_horizontal_lines) + 4)
C8_Witness ==
    /\ pc = "done" /\ ValidInput /\ args.stretch_grid
    /\ args.vertical_center /\ vertical_delta # Zero
    /\ DSub(top_stop, margin_bottom) # grid_height
    /\ LastLine("y").y1 # top_stop
    /\ LastLine("x").x1 = right_stop

\* C9: for valid input the first and the last grid line of each axis (index 0
\* and index num_spaces) are drawn with the major colour and thickness.
EndsAreMajor(kind, nspaces) ==
    /\ Cardinality(LinesOf(kind)) = nspaces + 1
    /\ First(LinesOf(kind)) \in MajorLinesOf(kind)
    /\ Last(LinesOf(kind)) \in MajorLinesOf(kind)
C9_GridEndsOnMajorLines ==
    (GridDone /\ ValidInput) =>
        /\ EndsAreMajor("x", Count(num_vertical_spaces))
        /\ EndsAreMajor("y", Count(num_horizontal_spaces))
C9_Witness ==
    /\ pc = "done" /\ ValidInput
    /\ major_line_interval >= 2
    /\ Count(num_vertical_spaces) >= major_line_interval
    /\ fmod(RawSpaces(usable_width), F(major_line_interval)) # Zero
    /\ Cardinality(MajorLinesOf("x")) < Cardinality(LinesOf("x"))

\* C10 as stated: for valid input, once the layout is computed the grid lies
\* inside the box of the input margins, and so does every grid line drawn.
InBox(l) ==
    /\ DLeq(input_margin_left, l.x1) /\ DLeq(l.x2, right_limit)
    /\ DLeq(input_margin_bottom, l.y1) /\ DLeq(l.y2, top_limit)
C10_GridInsideMarginBoxExactly ==
    (LayoutDone /\ ValidInput) =>
        /\ DLeq(input_margin_left, margin_left)
        /\ DLeq(right_stop, right_limit)
        /\ DLeq(input_margin_bottom, margin_bottom)
        /\ DLeq(top_stop, top_limit)
        /\ \A i \in LinesOf("x") \cup LinesOf("y") : InBox(ops[i])
\* C10 amended: the same up to float rounding: the final margins and stops
\* within 4 * 2^-50 * Scale of the box, every grid line within
\* (n + 4) * 2^-50 * Scale of it, n the number of grid lines of both axes.
\* The log of canvas calls only grows, so the lines are examined in the
\* completed render, where all of them are in the log.
MarginBoxWidened(k) ==
    [left |-> DSub(input_margin_left, Tolerance(k)),
     right |-> DAdd(right_limit, Tolerance(k)),
     bottom |-> DSub(input_margin_bottom, Tolerance(k)),
     top |-> DAdd(top_limit, Tolerance(k))]
InBoxNearly(l, box) ==
    /\ DLeq(box.left, l.x1) /\ DLeq(l.x2, box.right)
    /\ DLeq(box.bottom, l.y1) /\ DLeq(l.y2, box.top)
C10_GridInsideMarginBox ==
    (LayoutDone /\ ValidInput) =>
        LET stops == MarginBoxWidened(4)
            lines == MarginBoxWidened(Count(num_vertical_lines)
                                      + Count(num_horizontal_lines) + 4)
        IN  /\ DLeq(stops.left, margin_left)
            /\ DLeq(right_stop, stops.right)
            /\ DLeq(stops.bottom, margin_bottom)
            /\ DLeq(top_stop, stops.top)
            /\ pc = "done" =>
                  \A i \in LinesOf("x") \cup LinesOf("y") :
                      InBoxNearly(ops[i], lines)
C10_Witness ==
    /\ pc = "done" /\ ValidInput
    /\ args.stretch_grid /\ args.horizontal_center /\ args.vertical_center
    /\ DLess(Tolerance(1), vertical_delta)
    /\ DLess(top_stop, top_limit)
    /\ \E i \in LinesOf("x") : DLess(right_limit, ops[i].x1)

TypeOK == pc \in {"background", "layout", "for", "while", "border",
                  "dividers", "save", "done", "raised"}
====
